---- MODULE Spec2Model ----
(***************************************************************************)
(* A model of putingh (src/putingh.go): "put a byte stream under a name,   *)
(* get it back", stored in a git branch, a gist or a release asset.        *)
(*                                                                         *)
(* Every exported operation is synchronous and single-threaded, so each    *)
(* operation is one action; the calls it issues, in order, and its result  *)
(* are kept in the record of the operation (last).  Failures of remote and *)
(* local calls are inputs of the actions.                                  *)
(***************************************************************************)
EXTENDS Integers, Sequences, FiniteSets, TLC

\* ------------------------------------------------------------------ bounds
MaxCommits == 2
MaxGists == 2
MaxReleases == 1
\* the page size of a scan (WithPerPage)
PerPage == 1
\* file names inside a branch, a gist or a release, and contents
Names == {"x", "y"}
Data == {"d1", "d2"}
NoFile == "nofile"

VARIABLES
    commits,    \* the commit objects, by hash (index): [parent, tree]
    remoteTip,  \* refs/heads/<branch> on the forge; 0: the branch is absent
    mirror,     \* the local mirror of (owner, repo, branch) under tmpDir/git
    gists,      \* the owner's gists, in the order the forge lists them
    releases,   \* the repository's releases, in the order the forge lists them
    last        \* the record of the last operation

vars == <<commits, remoteTip, mirror, gists, releases, last>>

\* the variables each driver leaves alone
gitVars == <<commits, remoteTip, mirror>>
otherVars == <<gists, releases>>

NoOp == [op |-> "none", err |-> ""]

\* ===================================================================== git
EmptyTree == [n \in Names |-> NoFile]

\* the tree of commit h; the zero hash has no tree
TreeOf(h) == IF h = 0 THEN EmptyTree ELSE commits[h].tree

RECURSIVE IsAncestor(_, _)
\* a is h or one of its ancestors (go-git's fast-forward test of a push)
IsAncestor(a, h) == IF h = 0 THEN FALSE ELSE IF a = h THEN TRUE ELSE IsAncestor(a, commits[h].parent)

\* the mirror before its first use: no directory, no .git
AbsentMirror == [exists |-> FALSE, nRemotes |-> 0, nBranches |-> 0, localHead |-> 0, trackRef |-> 0, worktree |-> EmptyTree, index |-> EmptyTree]

\* what an operation of the git driver meets: the call of fetchGit or
\* putInGit that returns an error, or no error at all ("none": the remote holds
\* no branch but this one; "otherRefs": it holds other branches too)
GitFails == {"none", "otherRefs", "init", "head", "remote", "branch", "fetch", "reset", "write", "add", "commit", "push"}

\* the failures of the remote calls (fetch, push) and of the commit
GitCoreFails == {"none", "otherRefs", "fetch", "commit", "push"}

\* repository.Storer.IterReferences() followed by refIter.Next(): the first
\* reference of the filesystem storer, which lists .git/refs in directory
\* order (refs/heads/<branch>, then refs/remotes/origin-<branch>/<branch>)
\* and HEAD last; HEAD is symbolic and its Hash() is the zero hash.
FirstRef(m) == IF m.localHead # 0 THEN m.localHead ELSE IF m.trackRef # 0 THEN m.trackRef ELSE 0

\* remote.FetchContext with the refspec +refs/heads/b:refs/remotes/origin-b/b
\* "fetched" (no error) moves the tracking reference; the other outcomes leave
\* it: a transport error, transport.ErrEmptyRemoteRepository of a remote that
\* advertises no reference, NoMatchingRefSpecError of a remote that has
\* references but not the branch, NoErrAlreadyUpToDate.
FetchOutcome(m, tip, fail) == IF fail = "fetch" THEN "error" ELSE IF tip = 0 THEN (IF fail = "otherRefs" THEN "noMatchingRef" ELSE "emptyRemote") ELSE IF m.trackRef = tip THEN "upToDate" ELSE "fetched"

\* a classification that takes the empty remote for a fatal error
FetchStopsOnEmptyRemote(outcome) == outcome \in {"fetched", "upToDate", "noMatchingRef"}

\* whether the fetch result lets fetchGit go on to the sync step
FetchContinues(outcome) == outcome \in {"fetched", "upToDate", "emptyRemote", "noMatchingRef"}

\* the sync step of fetchGit: force the branch to the first reference and
\* hard-reset the working tree to it, unless its hash is zero
SyncMirror(m, fail) ==
    LET ref == FirstRef(m)
    IN  IF ref = 0 THEN [err |-> "", m |-> m, steps |-> <<>>]
        ELSE IF fail = "reset" THEN [err |-> "reset", m |-> [m EXCEPT !.localHead = ref], steps |-> <<>>]
        ELSE [err |-> "", m |-> [m EXCEPT !.localHead = ref, !.index = TreeOf(ref), !.worktree = TreeOf(ref)], steps |-> <<"reset">>]

\* a step that adds a remote whether or not the mirror has one
AlwaysCreateRemote(n) == n + 1

\* repository.Remote(remoteName), and CreateRemote only if it is not found:
\* the number of remotes named origin-<branch> afterwards
EnsureRemote(n) == IF n = 0 THEN 1 ELSE n

\* repository.Branch(branch), and CreateBranch only if it is not found: the
\* number of configurations of the branch afterwards
EnsureBranch(n) == IF n = 0 THEN 1 ELSE n

\* fetchGit: open or init, bind HEAD, ensure remote, ensure branch, fetch, sync
fetchGit(m, tip, fail) ==
    LET s1 == <<IF m.exists THEN "open" ELSE "init">>
        m1 == [m EXCEPT !.exists = TRUE]
        m3 == [m1 EXCEPT !.nRemotes = EnsureRemote(m.nRemotes)]
        m4 == [m3 EXCEPT !.nBranches = EnsureBranch(m.nBranches)]
        outcome == FetchOutcome(m4, tip, fail)
        m5 == IF outcome = "fetched" THEN [m4 EXCEPT !.trackRef = tip] ELSE m4
        sync == SyncMirror(m5, fail)
    IN  IF fail = "init" THEN [err |-> "init", m |-> m, steps |-> <<>>, fetch |-> "-"]
        ELSE IF fail = "head" THEN [err |-> "head", m |-> m1, steps |-> s1, fetch |-> "-"]
        ELSE IF fail = "remote" THEN [err |-> "remote", m |-> m1, steps |-> s1 \o <<"head">>, fetch |-> "-"]
        ELSE IF fail = "branch" THEN [err |-> "branch", m |-> m3, steps |-> s1 \o <<"head", "remote">>, fetch |-> "-"]
        ELSE IF ~FetchContinues(outcome) THEN [err |-> "fetch", m |-> m4, steps |-> s1 \o <<"head", "remote", "branch">>, fetch |-> outcome]
        ELSE [err |-> sync.err, m |-> sync.m, steps |-> s1 \o <<"head", "remote", "branch", "fetch">> \o sync.steps, fetch |-> outcome]

\* the forge (WithHost) and the owner, repository and branch of the mirror
Host == "https://github.com"
Owner == "o"
Repo == "r"
Branch == "b"

\* gitURL: the host, the owner and the repository joined by "/"
gitURL(owner, repo) == <<Host, "/", owner, "/", repo>>

\* a raw URL that names the branch right after the repository
RawURLWithoutRaw(owner, repo, branch, name) == gitURL(owner, repo) \o <<"/", branch, "/", name>>

\* the value putInGit returns: gitURL + "/raw/" + branch + "/" + name
RawURL(owner, repo, branch, name) == gitURL(owner, repo) \o <<"/", "raw", "/">> \o <<branch>> \o <<"/">> \o <<name>>

\* a status that compares the working file with the staged entry only
StatusWorktreeOnly(m, name) == m.worktree[name] # m.index[name]

\* work.Status() of name after work.Add(name): the staged entry against HEAD's
\* tree (Staging) and the working file against the staged entry (Worktree)
StatusChanged(m, name) == m.index[name] # TreeOf(m.localHead)[name] \/ m.worktree[name] # m.index[name]

\* repository.PushContext: refs/heads/* to the remote, not forced, so a tip
\* that is no ancestor of the new local head (through its parent) is rejected
PushAccepted(tip, parent, fail) == fail # "push" /\ (tip = 0 \/ IsAncestor(tip, parent))

\* what the operation before this one was, as far as this one is concerned:
\* a put whose push failed, or a successful put of the same name and data,
\* of the same name, or of another name
After(l, name, data) ==
    IF l.op # "putInGit" THEN "-"
    ELSE IF l.err = "push" THEN "pushFailed"
    ELSE IF l.err # "" THEN "-"
    ELSE IF l.name # name THEN "otherName"
    ELSE IF l.data = data THEN "samePut" ELSE "sameName"

\* the record of a git operation: its inputs, the remote tip its fetch saw,
\* the result of its fetch ("-": none was made), the local head and working
\* tree fetchGit left (synced: fetchGit returned no error), the steps it
\* performed, in order, and its result
GitRec(op, name, data, tip, f, err, out, steps, ncommit, id) ==
    [op |-> op, name |-> name, data |-> data, preTip |-> tip, synced |-> f.err = "", fetch |-> f.fetch,
     syncHead |-> IF f.err = "" THEN f.m.localHead ELSE 0,
     syncTree |-> IF f.err = "" THEN f.m.worktree ELSE EmptyTree,
     err |-> err, out |-> out, steps |-> steps, ncommit |-> ncommit, npush |-> ncommit, commit |-> id]

\* a get that reads the working tree whatever fetchGit returned
GetFromGitUnsynced(m, tip, name, fail) ==
    LET f == fetchGit(m, tip, fail)
    IN  [m |-> f.m, rec |-> GitRec("GetFromGit", name, NoFile, tip, f, f.err, f.m.worktree[name], f.steps \o <<"read">>, 0, 0)]

\* GetFromGit: sync, then open the file in the working tree
GetFromGit(m, tip, name, fail) ==
    LET f == fetchGit(m, tip, fail)
        got == f.m.worktree[name]
    IN  IF f.err # "" THEN [m |-> f.m, rec |-> GitRec("GetFromGit", name, NoFile, tip, f, f.err, NoFile, f.steps, 0, 0)]
        ELSE IF got = NoFile THEN [m |-> f.m, rec |-> GitRec("GetFromGit", name, NoFile, tip, f, "open", NoFile, f.steps \o <<"read">>, 0, 0)]
        ELSE [m |-> f.m, rec |-> GitRec("GetFromGit", name, NoFile, tip, f, "", got, f.steps \o <<"read">>, 0, 0)]

\* putInGit: sync, write the file, add it, and commit and push if the status
\* of the name shows a change.  id is the hash of the commit, if one is made.
putInGit(m, tip, name, data, fail, id) ==
    LET f == fetchGit(m, tip, fail)
        mw == [f.m EXCEPT !.worktree[name] = data]
        ma == [mw EXCEPT !.index[name] = data]
        mc == [ma EXCEPT !.localHead = id]
        newc == [parent |-> ma.localHead, tree |-> ma.index]
        sa == f.steps \o <<"write", "add", "status">>
        sp == sa \o <<"commit", "push">>
    IN  IF f.err # "" THEN [m |-> f.m, tip |-> tip, newc |-> <<>>, rec |-> GitRec("putInGit", name, data, tip, f, f.err, NoFile, f.steps, 0, 0)]
        ELSE IF fail = "write" THEN [m |-> f.m, tip |-> tip, newc |-> <<>>, rec |-> GitRec("putInGit", name, data, tip, f, "write", NoFile, f.steps, 0, 0)]
        ELSE IF fail = "add" THEN [m |-> mw, tip |-> tip, newc |-> <<>>, rec |-> GitRec("putInGit", name, data, tip, f, "add", NoFile, f.steps \o <<"write">>, 0, 0)]
        ELSE IF ~StatusChanged(ma, name) THEN [m |-> ma, tip |-> tip, newc |-> <<>>, rec |-> GitRec("putInGit", name, data, tip, f, "", RawURL(Owner, Repo, Branch, name), sa, 0, 0)]
        ELSE IF fail = "commit" THEN [m |-> ma, tip |-> tip, newc |-> <<>>, rec |-> GitRec("putInGit", name, data, tip, f, "commit", NoFile, sa, 0, 0)]
        ELSE IF ~PushAccepted(tip, ma.localHead, fail) THEN [m |-> mc, tip |-> tip, newc |-> <<newc>>, rec |-> GitRec("putInGit", name, data, tip, f, "push", NoFile, sp, 1, id)]
        ELSE [m |-> [mc EXCEPT !.trackRef = id], tip |-> id, newc |-> <<newc>>, rec |-> GitRec("putInGit", name, data, tip, f, "", RawURL(Owner, Repo, Branch, name), sp, 1, id)]

\* ------------------------------------------------------------- git actions
GitGetF(fails) ==
    \E name \in Names, fail \in fails :
        LET r == GetFromGit(mirror, remoteTip, name, fail)
        IN  /\ mirror' = r.m
            /\ last' = r.rec @@ [after |-> After(last, name, NoFile)]
            /\ UNCHANGED <<commits, remoteTip>>

GitPutF(fails) ==
    \E name \in Names, data \in Data, fail \in fails :
        LET r == putInGit(mirror, remoteTip, name, data, fail, Len(commits) + 1)
        IN  /\ r.newc # <<>> => Len(commits) < MaxCommits
            /\ mirror' = r.m
            /\ remoteTip' = r.tip
            /\ commits' = commits \o r.newc
            /\ last' = r.rec @@ [after |-> After(last, name, data)]

GitGet == GitGetF({"none", "otherRefs", "fetch"}) /\ UNCHANGED otherVars

GitPut == GitPutF(GitCoreFails) /\ UNCHANGED otherVars

\* another actor pushes a commit that changes one file of the branch
OtherPush ==
    \E name \in Names, data \in Data :
        /\ Len(commits) < MaxCommits
        /\ TreeOf(remoteTip)[name] # data
        /\ commits' = Append(commits, [parent |-> remoteTip, tree |-> [TreeOf(remoteTip) EXCEPT ![name] = data]])
        /\ remoteTip' = Len(commits) + 1
        /\ last' = [op |-> "other", err |-> ""]
        /\ UNCHANGED mirror
        /\ UNCHANGED otherVars

InitGit ==
    /\ commits = <<>>
    /\ remoteTip = 0
    /\ mirror = AbsentMirror

Init ==
    /\ InitGit
    /\ gists = <<>>
    /\ releases = <<>>
    /\ last = NoOp

NextGit == GitGet \/ GitPut \/ OtherPush

SpecGit == Init /\ [][NextGit]_vars

\* the git driver alone on the branch, with a failure at any of its calls
GitGetAll == GitGetF(GitFails \ {"otherRefs", "write", "add", "commit", "push"}) /\ UNCHANGED otherVars

GitPutAll == GitPutF(GitFails \ {"otherRefs"}) /\ UNCHANGED otherVars

NextGitAll == GitGetAll \/ GitPutAll

SpecGitAll == Init /\ [][NextGitAll]_vars

\* ==================================================== scan of remote pages
Min(a, b) == IF a < b THEN a ELSE b

\* the number of pages the forge cuts a list into; an empty list is one page
NumPages(list) == IF Len(list) = 0 THEN 1 ELSE (Len(list) + PerPage - 1) \div PerPage

\* page p of the list
PageOf(list, p) == SubSeq(list, (p - 1) * PerPage + 1, Min(p * PerPage, Len(list)))

\* a cursor that passes over the page after p
NextPageSkips(list, p) == IF p + 1 < NumPages(list) THEN p + 2 ELSE 0

\* resp.NextPage of page p: 0 on the last page
NextPage(list, p) == IF p < NumPages(list) THEN p + 1 ELSE 0

\* the failures of a page request: page p answered 404, or an error
PageFails == (1..2) \X {"notfound", "error"}

\* the page failure a failure stands for; <<0, "none">> if it is none
PageFail(fail) == IF fail \in PageFails THEN fail ELSE <<0, "none">>

\* a loop test that looks at the next page only
ScanIgnoresPredicate(cont, nextPage) == nextPage # 0

\* the loop test of eachGist and eachReleases after a page was listed: go on
\* if the predicate returned true and the response names a next page
ScanGoesOn(cont, nextPage) == cont /\ nextPage # 0

\* a loop that returns every error of a page request, the 404 too
EveryPageErrorReturned(kind) == TRUE

\* the error branch of the loop: a page request that fails makes the scan
\* return the error, unless the response is a 404: then it returns nil
PageErrorReturned(kind) == kind # "notfound"

RECURSIVE EachFrom(_, _, _, _)
\* the loop of eachGist and eachReleases from page p on.  conts[i] is what
\* the predicate returns for page i.  The result: the pages requested, the
\* pages handed to the predicate, the first page the predicate returned
\* false for (0: none) and whether the scan returned an error.
EachFrom(list, conts, pf, p) ==
    IF pf[1] = p
    THEN [requested |-> <<p>>, handled |-> <<>>, stopped |-> 0, err |-> PageErrorReturned(pf[2])]
    ELSE IF ScanGoesOn(conts[p], NextPage(list, p))
    THEN LET rest == EachFrom(list, conts, pf, NextPage(list, p))
         IN  [requested |-> <<p>> \o rest.requested, handled |-> <<p>> \o rest.handled, stopped |-> IF conts[p] THEN rest.stopped ELSE p, err |-> rest.err]
    ELSE [requested |-> <<p>>, handled |-> <<p>>, stopped |-> IF conts[p] THEN 0 ELSE p, err |-> FALSE]

\* eachGist / eachReleases: the loop from the first page
Each(list, conts, pf) == EachFrom(list, conts, pf, 1)

\* ==================================================================== gist
\* the wildcard selector
anyFile == "*"
\* a gist identifier that names no gist
GhostId == "ghost"
\* the identifiers the forge gives to gists, in the order it creates them
GistIdPool == <<"g1", "g2", "g3", "g4", "g5">>

NoFiles == [n \in Names |-> NoFile]

\* a wildcard that matches any gist
AnyGistMatches(g, sel, name) == IF sel = anyFile THEN TRUE ELSE g.id = sel

\* the match rule of GetFromGist and putInGist for one gist
GistMatches(g, sel, name) == IF sel = anyFile THEN g.files[name] # NoFile ELSE g.id = sel

\* the closure handed to eachGist: true (go on) if no gist of the page matches
GistPageCont(page, sel, name) == \A i \in 1..Len(page) : ~GistMatches(page[i], sel, name)

\* the index of the first matching gist among the pages handed to the closure
\* (oriGist), 0 if none
FirstMatch(list, handled, sel, name) ==
    LET hit == {i \in 1..Len(list) : GistMatches(list[i], sel, name) /\ \E k \in 1..Len(handled) : (handled[k] - 1) * PerPage < i /\ i <= handled[k] * PerPage}
    IN  IF hit = {} THEN 0 ELSE CHOOSE i \in hit : \A j \in hit : i <= j

\* the scan of the owner's gists with the closure of GetFromGist / putInGist
ScanGists(list, sel, name, pf) ==
    LET conts == [p \in 1..NumPages(list) |-> GistPageCont(PageOf(list, p), sel, name)]
        e == Each(list, conts, pf)
    IN  [e |-> e, ori |-> IF e.err THEN 0 ELSE FirstMatch(list, e.handled, sel, name)]

\* Gists.Edit on the forge (PATCH /gists/{id}): the files the request names
\* are written, the files it does not name are left as they are
RemoteEditGist(g, reqFiles) == [g EXCEPT !.files = [n \in Names |-> IF reqFiles[n] # NoFile THEN reqFiles[n] ELSE g.files[n]]]

\* Gists.Create on the forge: a new gist with a fresh identifier, listed first
\* (the description of the request is kept in the record of the operation)
RemoteCreateGist(list, reqFiles) == <<[id |-> GistIdPool[Len(list) + 1], files |-> reqFiles]>> \o list

\* the request of Gists.Create: public, the one file, the selector as the
\* description
CreateRequest(sel, name, data) == [kind |-> "create", public |-> TRUE, files |-> [NoFiles EXCEPT ![name] = data], description |-> sel]

\* the request of Gists.Edit: the identifier of the matched gist and, as its
\* file set, the one file
EditRequest(g, name, data) == [kind |-> "edit", id |-> g.id, files |-> [NoFiles EXCEPT ![name] = data]]

\* an operation that sends no create and no edit
NoRequest == [kind |-> "none"]

\* a decision that creates a gist whatever the scan found
AlwaysCreate(ori) == TRUE

\* the decision of putInGist after the scan: create if oriGist is nil
NeedsCreate(ori) == ori = 0

\* the points where an operation of the gist driver can fail
GistFails == {<<0, "none">>, <<0, "create">>, <<0, "edit">>, <<0, "download">>} \cup PageFails

\* the record of a gist operation: its inputs, the pages its scan requested
\* and handed to the closure, the gist it matched (its place in the list)
\* and whether that gist held another file, the remote calls in order, its
\* create or edit request, and its result
GistRec(op, sel, name, data, fail, list, sc, err, out, calls, req) ==
    [op |-> op, sel |-> sel, name |-> name, data |-> data, fail |-> fail, err |-> err, out |-> out,
     hadOther |-> sc.ori # 0 /\ \E n \in Names \ {name} : list[sc.ori].files[n] # NoFile,
     requested |-> sc.e.requested, handled |-> sc.e.handled, stopped |-> sc.e.stopped,
     matched |-> sc.ori, calls |-> calls, req |-> req, desc |-> sel]

\* GetFromGist: scan, then the named file of the matched gist, read from its
\* raw URL (a listed gist carries no inline content)
GetFromGist(list, sel, name, fail) ==
    LET sc == ScanGists(list, sel, name, PageFail(fail))
        lists == [i \in 1..Len(sc.e.requested) |-> "list"]
    IN  IF sc.e.err THEN GistRec("GetFromGist", sel, name, NoFile, fail, list, sc, "list", NoFile, lists, NoRequest)
        ELSE IF sc.ori = 0 THEN GistRec("GetFromGist", sel, name, NoFile, fail, list, sc, "notfound", NoFile, lists, NoRequest)
        ELSE IF list[sc.ori].files[name] = NoFile THEN GistRec("GetFromGist", sel, name, NoFile, fail, list, sc, "notfound", NoFile, lists, NoRequest)
        ELSE IF fail[2] = "download" THEN GistRec("GetFromGist", sel, name, NoFile, fail, list, sc, "download", NoFile, lists \o <<"httpGet">>, NoRequest)
        ELSE GistRec("GetFromGist", sel, name, NoFile, fail, list, sc, "", list[sc.ori].files[name], lists \o <<"httpGet">>, NoRequest)

\* putInGist: scan, then create a gist with the one file if none matched,
\* else edit the matched gist with a file set of the one file
putInGist(list, sel, name, data, fail) ==
    LET sc == ScanGists(list, sel, name, PageFail(fail))
        lists == [i \in 1..Len(sc.e.requested) |-> "list"]
        creq == CreateRequest(sel, name, data)
        ereq == EditRequest(list[sc.ori], name, data)
    IN  IF sc.e.err THEN [gists |-> list, rec |-> GistRec("putInGist", sel, name, data, fail, list, sc, "list", NoFile, lists, NoRequest)]
        ELSE IF NeedsCreate(sc.ori) /\ fail[2] = "create" THEN [gists |-> list, rec |-> GistRec("putInGist", sel, name, data, fail, list, sc, "create", NoFile, lists \o <<"create">>, creq)]
        ELSE IF NeedsCreate(sc.ori) THEN [gists |-> RemoteCreateGist(list, creq.files), rec |-> GistRec("putInGist", sel, name, data, fail, list, sc, "", "url", lists \o <<"create">>, creq)]
        ELSE IF fail[2] = "edit" THEN [gists |-> list, rec |-> GistRec("putInGist", sel, name, data, fail, list, sc, "edit", NoFile, lists \o <<"edit">>, ereq)]
        ELSE [gists |-> [list EXCEPT ![sc.ori] = RemoteEditGist(list[sc.ori], ereq.files)], rec |-> GistRec("putInGist", sel, name, data, fail, list, sc, "", "url", lists \o <<"edit">>, ereq)]

\* the selectors a caller can name: the wildcard, the identifier of a gist
\* of the owner, or an identifier that names none
Selectors(list) == {anyFile, GhostId} \cup {list[i].id : i \in 1..Len(list)}

\* ------------------------------------------------------------ gist actions
GistGet ==
    \E sel \in Selectors(gists), name \in Names, fail \in GistFails \ {<<0, "create">>, <<0, "edit">>} :
        /\ fail[1] <= NumPages(gists)
        /\ last' = GetFromGist(gists, sel, name, fail)
        /\ UNCHANGED <<gists, releases, gitVars>>

GistPut ==
    \E sel \in Selectors(gists), name \in Names, data \in Data, fail \in GistFails \ {<<0, "download">>} :
        LET r == putInGist(gists, sel, name, data, fail)
        IN  /\ fail[1] <= NumPages(gists)
            /\ Len(r.gists) <= MaxGists
            /\ gists' = r.gists
            /\ last' = r.rec
            /\ UNCHANGED <<releases, gitVars>>

\* the gists the owner has before the first operation: at most two, each
\* with one or both of the files
InitFileSets == {f \in [Names -> {NoFile, "d1"}] : f # NoFiles}
InitGistLists == {<<>>} \cup {<<[id |-> "g1", files |-> f]>> : f \in InitFileSets} \cup {<<[id |-> "g2", files |-> f2], [id |-> "g1", files |-> f1]>> : f1 \in InitFileSets, f2 \in InitFileSets}

InitGist ==
    /\ InitGit
    /\ gists \in InitGistLists
    /\ releases = <<>>
    /\ last = NoOp

NextGist == GistGet \/ GistPut

SpecGist == InitGist /\ [][NextGist]_vars

\* =========================================================== release asset
Tags == {"v1", "v2"}

\* Repositories.GetReleaseByTag on the forge: the place of the release with
\* the tag in the list, 0 if there is none (404)
FindRelease(list, tag) ==
    LET hit == {i \in 1..Len(list) : list[i].tag = tag}
    IN  IF hit = {} THEN 0 ELSE CHOOSE i \in hit : TRUE

\* the places of the assets of that name
AssetsNamed(assets, name) == {i \in 1..Len(assets) : assets[i].name = name}

\* a lookup that takes the first asset whatever its name
FirstAssetOfAll(assets, name) == IF Len(assets) = 0 THEN 0 ELSE 1

\* the loop of GetFromReleasesAsset over the assets: the download URL of the
\* last asset of that name (the place of the asset; 0: none)
FindAsset(assets, name) ==
    LET hit == AssetsNamed(assets, name)
    IN  IF hit = {} THEN 0 ELSE CHOOSE i \in hit : \A j \in hit : j <= i

\* a loop that finds nothing to delete
NoAssetToDelete(assets, name) == 0

\* the loop of putInReleasesAssetWithFile over the assets: the place of the
\* first asset of that name, the one it deletes (0: none)
AssetToDelete(assets, name) ==
    LET hit == AssetsNamed(assets, name)
    IN  IF hit = {} THEN 0 ELSE CHOOSE i \in hit : \A j \in hit : i <= j

\* Repositories.DeleteReleaseAsset on the forge
RemoteDeleteAsset(assets, i) == SubSeq(assets, 1, i - 1) \o SubSeq(assets, i + 1, Len(assets))

\* Repositories.UploadReleaseAsset on the forge refuses (422) a name the
\* release already has
UploadRefused(assets, name) == AssetsNamed(assets, name) # {}

\* Repositories.CreateRelease on the forge: a release without assets, listed first
RemoteCreateRelease(list, tag) == <<[tag |-> tag, assets |-> <<>>]>> \o list

\* the points where an operation of the release-asset driver can fail;
\* "lookupNoResp" is a lookup by tag that fails without an HTTP response
AssetFails == {"none", "lookup", "lookupNoResp", "create", "getRelease", "delete", "open", "upload", "download"}

\* the record of a release-asset operation: its inputs, whether the release
\* and an asset of the name existed before it, the remote calls in order,
\* and its result ("panic": the call did not return)
AssetRec(op, tag, name, data, fail, list, err, out, calls) ==
    [op |-> op, tag |-> tag, name |-> name, data |-> data, fail |-> fail, err |-> err, out |-> out, calls |-> calls,
     existed |-> FindRelease(list, tag) # 0,
     hadAsset |-> FindRelease(list, tag) # 0 /\ AssetsNamed(list[FindRelease(list, tag)].assets, name) # {}]

\* GetFromReleasesAsset: release by tag, the release, the asset of the name,
\* its download URL
GetFromReleasesAsset(list, tag, name, fail) ==
    LET r == FindRelease(list, tag)
        a == FindAsset(list[r].assets, name)
    IN  IF fail = "lookupNoResp" THEN AssetRec("GetFromReleasesAsset", tag, name, NoFile, fail, list, "panic", NoFile, <<"getByTag">>)
        ELSE IF fail = "lookup" THEN AssetRec("GetFromReleasesAsset", tag, name, NoFile, fail, list, "lookup", NoFile, <<"getByTag">>)
        ELSE IF r = 0 THEN AssetRec("GetFromReleasesAsset", tag, name, NoFile, fail, list, "notfound", NoFile, <<"getByTag">>)
        ELSE IF fail = "getRelease" THEN AssetRec("GetFromReleasesAsset", tag, name, NoFile, fail, list, "getRelease", NoFile, <<"getByTag", "getRelease">>)
        ELSE IF a = 0 THEN AssetRec("GetFromReleasesAsset", tag, name, NoFile, fail, list, "notfound", NoFile, <<"getByTag", "getRelease">>)
        ELSE IF fail = "download" THEN AssetRec("GetFromReleasesAsset", tag, name, NoFile, fail, list, "download", NoFile, <<"getByTag", "getRelease", "httpGet">>)
        ELSE AssetRec("GetFromReleasesAsset", tag, name, NoFile, fail, list, "", list[r].assets[a].data, <<"getByTag", "getRelease", "httpGet">>)

\* the upload of putInReleasesAssetWithFile to release r of the list, after
\* the calls made so far: open the local file, upload it
UploadStep(list, r, tag, name, data, fail, before, calls) ==
    IF fail = "open" THEN [releases |-> list, rec |-> AssetRec("putInReleasesAsset", tag, name, data, fail, before, "open", NoFile, calls)]
    ELSE IF fail = "upload" \/ UploadRefused(list[r].assets, name) THEN [releases |-> list, rec |-> AssetRec("putInReleasesAsset", tag, name, data, fail, before, "upload", NoFile, calls \o <<"upload">>)]
    ELSE [releases |-> [list EXCEPT ![r].assets = Append(@, [name |-> name, data |-> data])], rec |-> AssetRec("putInReleasesAsset", tag, name, data, fail, before, "", "url", calls \o <<"upload">>)]

\* a decision that creates the release whatever the lookup found
AlwaysMissing(r) == TRUE

\* the decision of putInReleasesAssetWithFile after the lookup by tag: create
\* the release if releaseID is nil
ReleaseMissing(r) == r = 0

\* putInReleasesAsset and putInReleasesAssetWithFile: the stream is spooled
\* to a file under tmpDir; release by tag; create the release if there is
\* none, else delete the first asset of the name; upload the file
putInReleasesAsset(list, tag, name, data, fail) ==
    LET r == FindRelease(list, tag)
        d == AssetToDelete(list[r].assets, name)
        deleted == [list EXCEPT ![r].assets = RemoteDeleteAsset(@, d)]
    IN  IF fail = "lookupNoResp" THEN [releases |-> list, rec |-> AssetRec("putInReleasesAsset", tag, name, data, fail, list, "panic", NoFile, <<"getByTag">>)]
        ELSE IF fail = "lookup" THEN [releases |-> list, rec |-> AssetRec("putInReleasesAsset", tag, name, data, fail, list, "lookup", NoFile, <<"getByTag">>)]
        ELSE IF ReleaseMissing(r) /\ fail = "create" THEN [releases |-> list, rec |-> AssetRec("putInReleasesAsset", tag, name, data, fail, list, "create", NoFile, <<"getByTag", "create">>)]
        ELSE IF ReleaseMissing(r) THEN UploadStep(RemoteCreateRelease(list, tag), 1, tag, name, data, fail, list, <<"getByTag", "create">>)
        ELSE IF fail = "getRelease" THEN [releases |-> list, rec |-> AssetRec("putInReleasesAsset", tag, name, data, fail, list, "getRelease", NoFile, <<"getByTag", "getRelease">>)]
        ELSE IF d = 0 THEN UploadStep(list, r, tag, name, data, fail, list, <<"getByTag", "getRelease">>)
        ELSE IF fail = "delete" THEN [releases |-> list, rec |-> AssetRec("putInReleasesAsset", tag, name, data, fail, list, "delete", NoFile, <<"getByTag", "getRelease", "delete">>)]
        ELSE UploadStep(deleted, r, tag, name, data, fail, list, <<"getByTag", "getRelease", "delete">>)

\* what the operation before a get was, as far as the get is concerned: a
\* successful put to its address that found the release or created it
AfterAsset(l, tag, name) ==
    IF l.op # "putInReleasesAsset" THEN "-"
    ELSE IF l.err # "" \/ l.tag # tag \/ l.name # name THEN "-"
    ELSE IF l.existed THEN "putExisting" ELSE "putCreated"

\* ----------------------------------------------------------- asset actions
AssetGet ==
    \E tag \in Tags, name \in Names, fail \in {"none", "lookup", "lookupNoResp", "getRelease", "download"} :
        /\ last' = GetFromReleasesAsset(releases, tag, name, fail) @@ [after |-> AfterAsset(last, tag, name)]
        /\ UNCHANGED <<releases, gists, gitVars>>

AssetPut ==
    \E tag \in Tags, name \in Names, data \in Data, fail \in AssetFails \ {"download"} :
        LET r == putInReleasesAsset(releases, tag, name, data, fail)
        IN  /\ Len(r.releases) > Len(releases) => Len(releases) < MaxReleases
            /\ releases' = r.releases
            /\ last' = r.rec
            /\ UNCHANGED <<gists, gitVars>>

\* the releases the repository has before the first operation: none, or one
\* with no asset, one asset or two
InitAssets == {<<>>, <<[name |-> "x", data |-> "d1"]>>, <<[name |-> "y", data |-> "d1"]>>, <<[name |-> "y", data |-> "d1"], [name |-> "x", data |-> "d1"]>>}
InitReleaseLists == {<<>>} \cup {<<[tag |-> "v1", assets |-> a]>> : a \in InitAssets}

InitAsset ==
    /\ InitGit
    /\ gists = <<>>
    /\ releases \in InitReleaseLists
    /\ last = NoOp

NextAsset == AssetGet \/ AssetPut

SpecAsset == InitAsset /\ [][NextAsset]_vars

\* =========================================================== scans alone
\* the closure an earlier revision handed to eachReleases: true (go on) if no
\* release of the page has the name
ReleasePageCont(page, tag) == \A i \in 1..Len(page) : page[i].tag # tag

\* the record of a scan: the pages of the list, the page request that failed
\* (<<0, "none">>: none), what the loop did, and a summary of the scan before it
ScanRec(op, list, pf, e, l) ==
    [op |-> op, npages |-> NumPages(list), fail |-> pf, requested |-> e.requested, handled |-> e.handled, stopped |-> e.stopped, err |-> IF e.err THEN "list" ELSE "",
     before |-> IF l.op \in {"eachGist", "eachReleases"} THEN [op |-> l.op, early |-> l.stopped # 0 /\ l.stopped < l.npages] ELSE [op |-> "none", early |-> FALSE]]

EachGistScan ==
    \E sel \in Selectors(gists), name \in Names, fail \in PageFails \cup {<<0, "none">>} :
        /\ fail[1] <= NumPages(gists)
        /\ last' = ScanRec("eachGist", gists, fail, ScanGists(gists, sel, name, fail).e, last)
        /\ UNCHANGED <<gists, releases, gitVars>>

EachReleasesScan ==
    \E tag \in Tags, fail \in PageFails \cup {<<0, "none">>} :
        /\ fail[1] <= NumPages(releases)
        /\ last' = ScanRec("eachReleases", releases, fail, Each(releases, [p \in 1..NumPages(releases) |-> ReleasePageCont(PageOf(releases, p), tag)], fail), last)
        /\ UNCHANGED <<gists, releases, gitVars>>

\* the lists the scans run over: the gists and releases of InitGist and
\* InitAsset, and two releases in either order
InitScanReleases == InitReleaseLists \cup {<<[tag |-> "v2", assets |-> <<>>], [tag |-> "v1", assets |-> <<>>]>>, <<[tag |-> "v1", assets |-> <<>>], [tag |-> "v2", assets |-> <<>>]>>}

InitScan ==
    /\ InitGit
    /\ gists \in InitGistLists
    /\ releases \in InitScanReleases
    /\ last = NoOp

NextScan == EachGistScan \/ EachReleasesScan

SpecScan == InitScan /\ [][NextScan]_vars

\* ================================================================== router
\* the longest URI of the router's inputs, in segments (host and path pieces)
MaxSegs == 5

\* a URI is its scheme and the characters after "://".  The characters: the
\* separator, letters, an escaped separator and a control character.
Slash == "/"
EscSlash == "%2F"
Ctl == "ctl"
Schemes == {"git", "asset", "gist", "http"}
RouteSegs == {<<>>, <<"b">>, <<"c", EscSlash, "d">>, <<Ctl>>}

RECURSIVE JoinSlash(_)
\* strings.Join(segs, "/")
JoinSlash(segs) == IF Len(segs) = 0 THEN <<>> ELSE IF Len(segs) = 1 THEN segs[1] ELSE segs[1] \o <<Slash>> \o JoinSlash(Tail(segs))

RouteURIs == [scheme : Schemes, rest : {JoinSlash(segs) : segs \in UNION {[1..n -> RouteSegs] : n \in 1..MaxSegs}}]

\* the place of the first separator of s, 0 if it has none
IndexSlash(s) == IF \E i \in 1..Len(s) : s[i] = Slash THEN CHOOSE i \in 1..Len(s) : s[i] = Slash /\ \A j \in 1..(i - 1) : s[j] # Slash ELSE 0

\* the decoding url.Parse applies to the path: an escaped separator becomes
\* a separator
Unescape(s) == [i \in 1..Len(s) |-> IF s[i] = EscSlash THEN Slash ELSE s[i]]

\* url.Parse: an error for a control character anywhere and for an escape of
\* an ASCII character in the host; else the scheme, the host (up to the first
\* separator) and the decoded path (from that separator on)
Parse(u) ==
    LET i == IndexSlash(u.rest)
        host == IF i = 0 THEN u.rest ELSE SubSeq(u.rest, 1, i - 1)
        path == IF i = 0 THEN <<>> ELSE SubSeq(u.rest, i, Len(u.rest))
    IN  IF (\E k \in 1..Len(u.rest) : u.rest[k] = Ctl) \/ (\E k \in 1..Len(host) : host[k] = EscSlash)
        THEN [err |-> TRUE, Scheme |-> u.scheme, Host |-> <<>>, Path |-> <<>>]
        ELSE [err |-> FALSE, Scheme |-> u.scheme, Host |-> host, Path |-> Unescape(path)]

RECURSIVE SplitN(_, _)
\* strings.SplitN(s, "/", n) for n > 0: at most n pieces, the last one the
\* unsplit remainder
SplitN(s, n) ==
    LET i == IndexSlash(s)
    IN  IF n = 1 \/ i = 0 THEN <<s>> ELSE <<SubSeq(s, 1, i - 1)>> \o SplitN(SubSeq(s, i + 1, Len(s)), n - 1)

\* the limit the router hands to SplitN and compares the pieces with
SplitLimit(scheme) == IF scheme = "gist" THEN 3 ELSE 4

\* a test that lets a path of fewer pieces through
ArityAtMost(sl, n) == Len(sl) <= n

\* the test of the router on the pieces: len(sl) != n is an error
ArityOK(sl, n) == Len(sl) = n

\* the pattern the router's arity error names
Pattern(scheme) == CASE scheme = "git" -> "git://owner/repository/branch/name" [] scheme = "asset" -> "asset://owner/repository/release/name" [] scheme = "gist" -> "gist://owner/gist_id/name" [] OTHER -> ""

Entries == {"GetFrom", "PutIn", "PutInWithFile"}

\* the driver operation an entry point calls for a scheme
Driver(entry, scheme) ==
    CASE entry = "GetFrom" -> (CASE scheme = "git" -> "GetFromGit" [] scheme = "asset" -> "GetFromReleasesAsset" [] OTHER -> "GetFromGist")
      [] entry = "PutIn" -> (CASE scheme = "git" -> "putInGit" [] scheme = "asset" -> "putInReleasesAsset" [] OTHER -> "putInGist")
      [] OTHER -> (CASE scheme = "git" -> "putInGitWithFile" [] scheme = "asset" -> "putInReleasesAssetWithFile" [] OTHER -> "putInGistWithFile")

\* what a driver operation returns to the router
DriverResults == {[out |-> "value", err |-> ""], [out |-> "", err |-> "driver"]}

\* the errors the router itself returns: of url.Parse, of the arity test, of
\* an unsupported scheme
RouteErrs == {"parse", "arity", "notSupport"}

\* an error of the router: the URI it cites and the pattern it names ("":
\* none).  url.Parse's *url.Error and the "not support" error cite the URI
\* and name no pattern.
RouteErr(entry, u, kind, pattern) == [op |-> entry, uri |-> u, err |-> kind, errURI |-> u, pattern |-> pattern, calls |-> <<>>, out |-> "", res |-> [out |-> "", err |-> ""]]

\* GetFrom / PutIn / PutInWithFile: parse, switch on the scheme, split the
\* path, test the number of pieces, call the driver with the host and the
\* pieces after the first (empty) one, return what it returns
Route(entry, u, res) ==
    LET p == Parse(u)
        n == SplitLimit(p.Scheme)
        sl == SplitN(p.Path, n)
    IN  IF p.err THEN RouteErr(entry, u, "parse", "")
        ELSE IF p.Scheme \notin {"git", "asset", "gist"} THEN RouteErr(entry, u, "notSupport", "")
        ELSE IF ~ArityOK(sl, n) THEN RouteErr(entry, u, "arity", Pattern(p.Scheme))
        ELSE [op |-> entry, uri |-> u, err |-> res.err, errURI |-> <<>>, pattern |-> "", calls |-> <<[op |-> Driver(entry, p.Scheme), args |-> <<p.Host>> \o Tail(sl)]>>, out |-> res.out, res |-> res]

\* ---------------------------------------------------------- router actions
RouteCall(entry) ==
    /\ last.op = "request"
    /\ last.entry = entry
    /\ last' = Route(entry, last.uri, last.res)
    /\ UNCHANGED <<gitVars, otherVars>>

GetFrom == RouteCall("GetFrom")

PutIn == RouteCall("PutIn")

PutInWithFile == RouteCall("PutInWithFile")

\* a call of an entry point with a URI, and what the driver will answer if
\* the router calls it
InitRoute ==
    /\ InitGit
    /\ gists = <<>>
    /\ releases = <<>>
    /\ last \in [op : {"request"}, err : {""}, entry : Entries, uri : RouteURIs, res : DriverResults]

NextRoute == GetFrom \/ PutIn \/ PutInWithFile

SpecRoute == InitRoute /\ [][NextRoute]_vars

\* ================================================= stream of a get result
\* the longest content of a stream and the most reads of one stream
MaxBytes == 4
MaxReads == 6

\* the handles newReaderWithAutoCloser wraps: the file of GetFromGit, the
\* body of the response of the default HTTP transport, and a body whose Read
\* does not depend on Close (of a transport set by WithHTTPClient)
HandleKinds == {"file", "body", "plain"}

\* rc.Read on a handle with some bytes left: after Close a file and a
\* transport body return an error that is not io.EOF and a plain body
\* returns io.EOF again; before it n bytes are returned, with io.EOF once
\* nothing is left (a body may return it together with the last bytes)
HandleRead(h, n, withEOF) ==
    IF h.closed THEN [n |-> 0, err |-> IF h.kind = "plain" THEN "EOF" ELSE "closed"]
    ELSE IF h.left = 0 THEN [n |-> 0, err |-> "EOF"]
    ELSE [n |-> n, err |-> IF withEOF /\ n = h.left /\ h.kind # "file" THEN "EOF" ELSE ""]

\* readerWithAutoCloser.Read: read the handle, close it if the read returned
\* io.EOF, return what the read returned
Read(r, n, withEOF) ==
    LET res == HandleRead(r, n, withEOF)
        eof == res.err = "EOF"
    IN  [op |-> "Read", err |-> res.err, n |-> res.n, kind |-> r.kind, left |-> r.left - res.n, reads |-> r.reads + 1,
         closed |-> r.closed \/ eof, closes |-> IF eof THEN r.closes + 1 ELSE r.closes, eofs |-> IF eof THEN r.eofs + 1 ELSE r.eofs]

\* a stream as a get returns it: nothing read, the handle open
NewStreams == [op : {"stream"}, err : {""}, n : {0}, kind : HandleKinds, left : 0..MaxBytes, reads : {0}, closed : {FALSE}, closes : {0}, eofs : {0}]

ReadStream ==
    /\ last.op \in {"stream", "Read"}
    /\ last.reads < MaxReads
    /\ \E n \in 1..MaxBytes, withEOF \in BOOLEAN :
        /\ (last.left > 0 /\ ~last.closed) => n <= last.left
        /\ last' = Read(last, n, withEOF)
    /\ UNCHANGED <<gitVars, otherVars>>

InitReader ==
    /\ InitGit
    /\ gists = <<>>
    /\ releases = <<>>
    /\ last \in NewStreams

NextReader == ReadStream

SpecReader == InitReader /\ [][NextReader]_vars

\* ==================================================== put of a local file
\* a local file: whether os.Open succeeds, and its bytes
LocalFiles == [readable : BOOLEAN, bytes : Data]

\* a read that returns the same bytes whatever the file holds
ReadsFixedBytes(file) == "d1"

\* the bytes the driver reads from the opened file
ReadFile(file) == file.bytes

\* the result of a put that failed to open the local file before any call
OpenFailed(op, name) == [op |-> op, name |-> name, err |-> "open", out |-> NoFile, steps |-> <<>>, calls |-> <<>>]

\* putInGitWithFile: open the file, hand it to putInGit
putInGitWithFile(m, tip, name, file, fail, id) ==
    IF ~file.readable THEN [m |-> m, tip |-> tip, newc |-> <<>>, rec |-> OpenFailed("putInGit", name)]
    ELSE putInGit(m, tip, name, ReadFile(file), fail, id)

\* putInGistWithFile: open the file, hand it to putInGist
putInGistWithFile(list, sel, name, file, fail) ==
    IF ~file.readable THEN [gists |-> list, rec |-> OpenFailed("putInGist", name)]
    ELSE putInGist(list, sel, name, ReadFile(file), fail)

\* putInReleasesAssetWithFile on a local file: the file is opened after the
\* release was looked up and created, or its asset deleted; a file that
\* cannot be opened fails there unless an earlier call failed
putInReleasesAssetWithFile(list, tag, name, file, fail) ==
    putInReleasesAsset(list, tag, name, ReadFile(file), IF ~file.readable /\ fail \in {"none", "upload"} THEN "open" ELSE fail)

\* a call of PutIn or PutInWithFile: the backend of the URI, its selector
\* (gist), tag (asset) or nothing (git), the name, the local file (for
\* PutIn: the bytes of the stream) and the call that will fail
PutRequests(backend, sels, fails) == [op : {"request"}, err : {""}, entry : {"PutIn", "PutInWithFile"}, backend : {backend}, sel : sels, name : Names, file : LocalFiles, fail : fails]

\* the effect of the stream form of a put on the remotes and the mirror
StreamPut(req, data) ==
    CASE req.backend = "git" ->
            LET r == putInGit(mirror, remoteTip, req.name, data, req.fail, Len(commits) + 1)
            IN  [commits |-> commits \o r.newc, remoteTip |-> r.tip, mirror |-> r.m, gists |-> gists, releases |-> releases, rec |-> r.rec]
      [] req.backend = "gist" ->
            LET r == putInGist(gists, req.sel, req.name, data, req.fail)
            IN  [commits |-> commits, remoteTip |-> remoteTip, mirror |-> mirror, gists |-> r.gists, releases |-> releases, rec |-> r.rec]
      [] OTHER ->
            LET r == putInReleasesAsset(releases, req.sel, req.name, data, req.fail)
            IN  [commits |-> commits, remoteTip |-> remoteTip, mirror |-> mirror, gists |-> gists, releases |-> r.releases, rec |-> r.rec]

\* the effect of the file form of a put
FilePut(req) ==
    CASE req.backend = "git" ->
            LET r == putInGitWithFile(mirror, remoteTip, req.name, req.file, req.fail, Len(commits) + 1)
            IN  [commits |-> commits \o r.newc, remoteTip |-> r.tip, mirror |-> r.m, gists |-> gists, releases |-> releases, rec |-> r.rec]
      [] req.backend = "gist" ->
            LET r == putInGistWithFile(gists, req.sel, req.name, req.file, req.fail)
            IN  [commits |-> commits, remoteTip |-> remoteTip, mirror |-> mirror, gists |-> r.gists, releases |-> releases, rec |-> r.rec]
      [] OTHER ->
            LET r == putInReleasesAssetWithFile(releases, req.sel, req.name, req.file, req.fail)
            IN  [commits |-> commits, remoteTip |-> remoteTip, mirror |-> mirror, gists |-> gists, releases |-> r.releases, rec |-> r.rec]

PutDone(req, e) ==
    /\ commits' = e.commits /\ remoteTip' = e.remoteTip /\ mirror' = e.mirror
    /\ gists' = e.gists /\ releases' = e.releases
    /\ last' = [op |-> req.entry, err |-> e.rec.err, backend |-> req.backend, file |-> req.file, rec |-> e.rec]

PutInCall ==
    /\ last.op = "request" /\ last.entry = "PutIn"
    /\ PutDone(last, StreamPut(last, last.file.bytes))

PutInWithFileCall ==
    /\ last.op = "request" /\ last.entry = "PutInWithFile"
    /\ PutDone(last, FilePut(last))

\* the mirror and the remote after one successful put of x
OnePut == putInGit(AbsentMirror, 0, "x", "d1", "none", 1)

\* a call of one of the two forms, on the gists of InitGist, the releases of
\* InitAsset, or a git branch that is absent or holds one commit
InitPutFile ==
    \/ /\ gists = <<>> /\ releases = <<>>
       /\ \/ InitGit
          \/ commits = OnePut.newc /\ remoteTip = OnePut.tip /\ mirror = OnePut.m
       /\ last \in PutRequests("git", {"-"}, GitCoreFails)
    \/ /\ InitGit /\ releases = <<>>
       /\ gists \in InitGistLists
       /\ last \in PutRequests("gist", Selectors(gists), {f \in GistFails \ {<<0, "download">>} : f[1] <= NumPages(gists)})
    \/ /\ InitGit /\ gists = <<>>
       /\ releases \in InitReleaseLists
       /\ last \in PutRequests("asset", Tags, AssetFails \ {"download", "open"})

NextPutFile == PutInCall \/ PutInWithFileCall

SpecPutFile == InitPutFile /\ [][NextPutFile]_vars

\* ------------------------------------------------------------ one get
\* a call of GetFrom: the backend of the URI, its selector (gist), tag
\* (asset) or nothing (git), the name and the call that will fail
GetRequests(backend, sels, fails) == [op : {"request"}, err : {""}, entry : {"GetFrom"}, backend : {backend}, sel : sels, name : Names, fail : fails]

\* a get that runs the put of its address
GetThatPuts(req) == StreamPut(req, "d2")

\* the effect of a get on the remotes and the mirror: the driver of the
\* backend is called and only the git driver has state of its own to change
GetEffect(req) ==
    CASE req.backend = "git" ->
            LET r == GetFromGit(mirror, remoteTip, req.name, req.fail)
            IN  [commits |-> commits, remoteTip |-> remoteTip, mirror |-> r.m, gists |-> gists, releases |-> releases, rec |-> r.rec]
      [] req.backend = "gist" ->
            [commits |-> commits, remoteTip |-> remoteTip, mirror |-> mirror, gists |-> gists, releases |-> releases, rec |-> GetFromGist(gists, req.sel, req.name, req.fail)]
      [] OTHER ->
            [commits |-> commits, remoteTip |-> remoteTip, mirror |-> mirror, gists |-> gists, releases |-> releases, rec |-> GetFromReleasesAsset(releases, req.sel, req.name, req.fail)]

GetFromCall ==
    /\ last.op = "request" /\ last.entry = "GetFrom"
    /\ LET e == GetEffect(last)
       IN  /\ commits' = e.commits /\ remoteTip' = e.remoteTip /\ mirror' = e.mirror
           /\ gists' = e.gists /\ releases' = e.releases
           /\ last' = [op |-> "GetFrom", err |-> e.rec.err, backend |-> last.backend, rec |-> e.rec]

\* the mirror after a put of x whose push failed: one commit ahead of a
\* remote that has no branch
UnpushedPut == putInGit(AbsentMirror, 0, "x", "d1", "push", 1)

\* a get on the gists of InitGist, the releases of InitAsset, or a git branch
\* that is absent, holds one commit (the mirror in step with it, or not yet
\* made), or is absent while the mirror holds a commit never pushed
InitGet ==
    \/ /\ gists = <<>> /\ releases = <<>>
       /\ \/ InitGit
          \/ commits = OnePut.newc /\ remoteTip = OnePut.tip /\ mirror \in {OnePut.m, AbsentMirror}
          \/ commits = UnpushedPut.newc /\ remoteTip = UnpushedPut.tip /\ mirror = UnpushedPut.m
       /\ last \in GetRequests("git", {"-"}, {"none", "otherRefs", "fetch"})
    \/ /\ InitGit /\ releases = <<>>
       /\ gists \in InitGistLists
       /\ last \in GetRequests("gist", Selectors(gists), {f \in GistFails \ {<<0, "create">>, <<0, "edit">>} : f[1] <= NumPages(gists)})
    \/ /\ InitGit /\ gists = <<>>
       /\ releases \in InitReleaseLists
       /\ last \in GetRequests("asset", Tags, {"none", "lookup", "lookupNoResp", "getRelease", "download"})

NextGet == GetFromCall

SpecGet == InitGet /\ [][NextGet]_vars

\* ------------------------------------------------------- mirror directories
\* the temporary directory of DefaultOptions, and the parent-directory name
TmpDir == <<"tmp">>
DotDot == ".."

\* the owners, repositories and branches of the git URIs looked at: empty, a
\* letter, or the parent-directory name
MirrorSegs == {<<>>, <<"a">>, <<DotDot>>}

\* git://<owner>/<repository>/<branch>/n
MirrorURIs == {[scheme |-> "git", rest |-> JoinSlash(<<o, r, b, <<"n">>>>)] : o \in MirrorSegs, r \in MirrorSegs, b \in MirrorSegs}

\* the owner, repository and branch GetFrom hands to GetFromGit: the host and
\* the second and third piece of the path
Triple(u) == [owner |-> Parse(u).Host, repo |-> SplitN(Parse(u).Path, 4)[2], branch |-> SplitN(Parse(u).Path, 4)[3]]

RECURSIVE JoinClean(_, _)
\* filepath.Join on a relative base: empty elements are dropped, and Clean
\* lets a parent-directory element take away the element before it, or
\* stay if there is none to take away
JoinClean(base, elems) ==
    IF elems = <<>> THEN base
    ELSE LET e == Head(elems)
             n == Len(base)
         IN  JoinClean(IF e = <<>> THEN base
                       ELSE IF e = <<DotDot>> /\ n > 0 /\ base[n] # <<DotDot>> THEN SubSeq(base, 1, n - 1)
                       ELSE Append(base, e), Tail(elems))

\* the directory of the mirror of a triple
MirrorDir(t) == JoinClean(<<>>, <<TmpDir, <<"git">>, t.owner, t.repo, t.branch>>)

\* gitRemoteName: "origin-" + branch
gitRemoteName(branch) == <<"origin-">> \o branch

\* the start of fetchGit on a disk, which is the set of the remotes
\* configured in the repositories of its directories: the repository of the
\* directory is opened or made, and the remote of the branch is created with
\* the URL of the triple unless the repository has a remote of that name
OpenMirror(disk, t) ==
    IF \E e \in disk : e.dir = MirrorDir(t) /\ e.name = gitRemoteName(t.branch) THEN disk
    ELSE disk \cup {[dir |-> MirrorDir(t), name |-> gitRemoteName(t.branch), url |-> gitURL(t.owner, t.repo)]}

\* the disk after two operations, in the order given, on a disk with no mirror
OpenBoth(first, second) == OpenMirror(OpenMirror({}, Triple(first)), Triple(second))

\* two git operations, of the URIs a and b, reach fetchGit in one order or
\* the other
OpenMirrors ==
    /\ last.op = "request"
    /\ ~Parse(last.a).err /\ ArityOK(SplitN(Parse(last.a).Path, 4), 4)
    /\ ~Parse(last.b).err /\ ArityOK(SplitN(Parse(last.b).Path, 4), 4)
    /\ last' = [op |-> "fetchGit", err |-> "", a |-> last.a, b |-> last.b, first |-> last.first,
                ta |-> Triple(last.a), tb |-> Triple(last.b), dirA |-> MirrorDir(Triple(last.a)), dirB |-> MirrorDir(Triple(last.b)),
                disk |-> IF last.first = "a" THEN OpenBoth(last.a, last.b) ELSE OpenBoth(last.b, last.a)]
    /\ UNCHANGED <<gitVars, otherVars>>

InitMirrors ==
    /\ InitGit
    /\ gists = <<>>
    /\ releases = <<>>
    /\ last \in [op : {"request"}, err : {""}, a : MirrorURIs, b : MirrorURIs, first : {"a", "b"}]

NextMirrors == OpenMirrors

SpecMirrors == InitMirrors /\ [][NextMirrors]_vars

\* ============================================================ whole system
\* every operation of the three drivers and the scans, from empty remotes
Next == NextGit \/ NextGist \/ NextAsset \/ NextScan

Spec == Init /\ [][Next]_vars

\* ============================================================== git claims
GitOps == {"GetFromGit", "putInGit"}

\* the remote branch held data under the name before the operation r
HeldBefore(r) == TreeOf(r.preTip)[r.name] = r.data

\* C1: of two consecutive successful puts of the same data under the same
\* git name, data the remote branch did not hold, the first makes exactly
\* one commit and one push and the second makes none.
C1_IdempotentGitPut == [][(last.op = "putInGit" /\ last.err = "" /\ ~HeldBefore(last) /\ last'.op = "putInGit" /\ last'.err = "" /\ last'.name = last.name /\ last'.data = last.data) => (last.ncommit = 1 /\ last.npush = 1 /\ last'.ncommit = 0 /\ last'.npush = 0)]_vars

\* C2: whenever fetchGit returns without error and the branch exists on the
\* remote, the local branch is the remote tip that fetch saw and the working
\* tree is that commit's tree.
C2_RemoteAlwaysWins == (last.op \in GitOps /\ last.synced /\ last.preTip # 0) => (last.syncHead = last.preTip /\ last.syncTree = TreeOf(last.preTip))

\* C3: after a put that committed and whose push failed, the next git
\* operation whose sync succeeds leaves the mirror at the remote tip: the
\* orphaned commit is not the local head, and the working tree is the tree of
\* the remote tip.
C3_FailedPushDiscarded == [][(last.op = "putInGit" /\ last.err = "push" /\ last'.op \in GitOps /\ last'.synced /\ last'.preTip # 0) => (last'.syncHead # last.commit /\ last'.syncTree = TreeOf(last'.preTip))]_vars

\* C4: a get that follows a successful put of the same git name, with no
\* other actor in between and its own sync succeeding, returns the data put.
C4_GitRoundTrip == [][(last.op = "putInGit" /\ last.err = "" /\ last'.op = "GetFromGit" /\ last'.name = last.name /\ last'.synced) => (last'.err = "" /\ last'.out = last.data)]_vars

\* C4 witness: a get returned data right after a successful put of its name
C4_Witness == last.op = "GetFromGit" /\ last.after = "sameName" /\ last.err = "" /\ last.out \in Data

\* C7: a successful put to a branch the remote lacks leaves the branch on
\* the remote holding the file, and a get of that name that follows succeeds.
C7_BranchBootstrap == [][((last'.op = "putInGit" /\ last'.err = "" /\ last'.preTip = 0) => (remoteTip' # 0 /\ commits'[remoteTip'].tree[last'.name] = last'.data)) /\ ((last.op = "putInGit" /\ last.err = "" /\ last.preTip = 0 /\ last'.op = "GetFromGit" /\ last'.name = last.name /\ last'.synced) => last'.err = "")]_vars

\* ============================================================= gist claims
NoFail == <<0, "none">>

\* C5: a get that follows a successful put to the same gist address, and
\* whose own remote calls all succeed, returns the data put, for the
\* wildcard and for a concrete selector, whether or not a gist matched.
C5_GistRoundTrip == [][(last.op = "putInGist" /\ last.err = "" /\ last'.op = "GetFromGist" /\ last'.sel = last.sel /\ last'.name = last.name /\ last'.fail = NoFail) => (last'.err = "" /\ last'.out = last.data)]_vars

\* C9: after a successful put of a file into a matched gist that also held
\* another file, the gist holds the put file only.
C9_GistReplace == (last.op = "putInGist" /\ last.err = "" /\ last.matched # 0 /\ last.hadOther) => gists[last.matched].files = [NoFiles EXCEPT ![last.name] = last.data]

\* ============================================================ asset claims
\* C6: a get that follows a successful put to the same asset address, and
\* whose own remote calls all succeed, returns the data put, whether the put
\* found the release or created it.
C6_AssetRoundTrip == [][(last.op = "putInReleasesAsset" /\ last.err = "" /\ last'.op = "GetFromReleasesAsset" /\ last'.tag = last.tag /\ last'.name = last.name /\ last'.fail = "none") => (last'.err = "" /\ last'.out = last.data)]_vars

\* C6 witness: a get returned data right after a put that created the release
C6_Witness == last.op = "GetFromReleasesAsset" /\ last.after = "putCreated" /\ last.err = "" /\ last.out \in Data

\* C8: a put of an asset whose name an asset of the release already has
\* succeeds if none of its calls fails, and after every successful such put
\* the release holds exactly one asset of that name, with the data put.
C8_AssetReplace ==
    (last.op = "putInReleasesAsset" /\ last.hadAsset) =>
        LET a == releases[FindRelease(releases, last.tag)].assets
        IN  /\ last.fail = "none" => last.err = ""
            /\ last.err = "" => (Cardinality(AssetsNamed(a, last.name)) = 1 /\ \A i \in AssetsNamed(a, last.name) : a[i].data = last.data)

\* C8 witness: a put replaced an asset: it deleted the old one and uploaded
C8_Witness == last.op = "putInReleasesAsset" /\ last.hadAsset /\ last.err = "" /\ last.data = "d2" /\ last.calls = <<"getByTag", "getRelease", "delete", "upload">>

\* ============================================================= scan claims
\* C10: once the predicate has returned false for a page, eachGist and
\* eachReleases request no further page: the pages requested are the pages
\* up to that one, whether or not the forge names a next page.
C10_ScanShortCircuit == (last.op \in {"eachGist", "eachReleases"} /\ last.stopped # 0) => last.requested = [i \in 1..last.stopped |-> i]

\* C10 witness: a scan of the releases stopped at a page that had a next
\* page, after a scan of the gists that did too
C10_Witness == last.op = "eachReleases" /\ last.stopped # 0 /\ last.stopped < last.npages /\ last.before.op = "eachGist" /\ last.before.early

\* ================================================= git claims: URL and fetch
\* C15: every successful git put returns <host>/<owner>/<repo>/raw/<branch>/
\* <name>, whether it committed and pushed or skipped both.
C15_GitPutURL == (last.op = "putInGit" /\ last.err = "") => last.out = <<Host, "/", Owner, "/", Repo, "/", "raw", "/", Branch, "/", last.name>>

\* C15 witness: a successful put that made no commit and no push, after a
\* successful put of the same name and data, returned the URL
C15_Witness == last.op = "putInGit" /\ last.err = "" /\ last.ncommit = 0 /\ last.after = "samePut" /\ Len(last.out) = 11

\* C16: a fetch that ends "already up to date", "remote repository is empty"
\* or "no matching ref on remote" lets the operation go on to the sync step;
\* any other fetch error ends the operation with the fetch error, and no
\* reset, file write, add, commit or push is made: the branch, the index and
\* the working tree of the mirror, the commits and the remote stay as they were.
C16_FetchClassification ==
    [][(last'.op \in GitOps /\ last'.fetch # "-") =>
        /\ last'.fetch \in {"upToDate", "emptyRemote", "noMatchingRef"} => (last'.err # "fetch" /\ \E i \in 1..Len(last'.steps) : last'.steps[i] = "fetch")
        /\ last'.fetch = "error" => /\ last'.err = "fetch"
                                   /\ \A i \in 1..Len(last'.steps) : last'.steps[i] \notin {"fetch", "reset", "write", "add", "status", "commit", "push", "read"}
                                   /\ last'.ncommit = 0
                                   /\ commits' = commits /\ remoteTip' = remoteTip
                                   /\ mirror'.localHead = mirror.localHead /\ mirror'.index = mirror.index /\ mirror'.worktree = mirror.worktree]_vars

\* C16 witness: a put to a remote that has other branches but not this one
\* went on after the fetch and succeeded
C16_Witness == last.op = "putInGit" /\ last.fetch = "noMatchingRef" /\ last.err = "" /\ last.ncommit = 1

\* ============================================= scan claims: page failures
ScanOps == {"eachGist", "eachReleases"}

\* C17: a not-found response to the first page request makes eachGist and
\* eachReleases return success, with the predicate never invoked.
C17_FirstPageNotFound == (last.op \in ScanOps /\ last.fail = <<1, "notfound">>) => (last.err = "" /\ last.handled = <<>> /\ last.requested = <<1>> /\ last.stopped = 0)

\* C17 witness: a scan of two pages of releases whose first page request was
\* answered not-found, after a scan of the gists
C17_Witness == last.op = "eachReleases" /\ last.fail = <<1, "notfound">> /\ last.npages = 2 /\ last.err = "" /\ last.before.op = "eachGist"

\* C18: every failure of a page request that eachGist or eachReleases makes,
\* other than a not-found on the first page, makes the scan return an error:
\* a not-found on a later page too.
C18_PageErrorsPropagate == (last.op \in ScanOps /\ last.fail[1] # 0 /\ last.fail # <<1, "notfound">> /\ \E i \in 1..Len(last.requested) : last.requested[i] = last.fail[1]) => last.err # ""

\* ============================================ gist claims: match and request
GistOps == {"GetFromGist", "putInGist"}

\* the calls of an operation that change the remote
Mutating(calls) == SelectSeq(calls, LAMBDA c : c \in {"create", "edit"})

\* C19: a successful putInGist makes exactly one mutating call.  If its scan
\* matched no gist it is a create of a public gist with the one file and the
\* selector as its description, and the owner has one gist more; if the scan
\* matched a gist it is an edit of that gist's identifier, and the owner has
\* the same gists, the matched one with the file.
C19_CreateOrEdit ==
    [][(last'.op = "putInGist" /\ last'.err = "") =>
        IF last'.matched = 0
        THEN /\ Mutating(last'.calls) = <<"create">>
             /\ last'.req = [kind |-> "create", public |-> TRUE, files |-> [NoFiles EXCEPT ![last'.name] = last'.data], description |-> last'.sel]
             /\ Len(gists') = Len(gists) + 1 /\ Tail(gists') = gists /\ gists'[1].files = last'.req.files
        ELSE /\ Mutating(last'.calls) = <<"edit">>
             /\ last'.req.kind = "edit" /\ last'.req.id = gists[last'.matched].id
             /\ Len(gists') = Len(gists)
             /\ \A i \in 1..Len(gists) : gists'[i].id = gists[i].id /\ (i # last'.matched => gists'[i] = gists[i])
             /\ gists'[last'.matched].files[last'.name] = last'.data]_vars

\* C19 witness: a put by the wildcard matched the second gist of the owner
\* and edited it
C19_Witness == last.op = "putInGist" /\ last.err = "" /\ last.sel = anyFile /\ last.matched = 2 /\ last.req.kind = "edit" /\ last.req.id = gists[2].id

\* C20: the gist a get or a put matches is, with the wildcard, the first gist
\* of the owner that holds a file of the name, and with a concrete selector
\* the gist of that identifier; if no page request fails and no gist is
\* matched, none of the owner's gists fits the rule; a get returns not-found
\* when no gist is matched or the matched gist has no file of the name.
C20_GistMatchRule ==
    [][(last'.op \in GistOps /\ last'.err # "list") =>
        LET m == last'.matched
            sel == last'.sel
            name == last'.name
        IN  /\ (m # 0 /\ sel = anyFile) => (gists[m].files[name] # NoFile /\ \A j \in 1..(m - 1) : gists[j].files[name] = NoFile)
            /\ (m # 0 /\ sel # anyFile) => (gists[m].id = sel /\ \A j \in 1..(m - 1) : gists[j].id # sel)
            /\ (m = 0 /\ last'.fail[1] = 0 /\ sel = anyFile) => \A j \in 1..Len(gists) : gists[j].files[name] = NoFile
            /\ (m = 0 /\ last'.fail[1] = 0 /\ sel # anyFile) => \A j \in 1..Len(gists) : gists[j].id # sel
            /\ (last'.op = "GetFromGist" /\ m = 0) => last'.err = "notfound"
            /\ (last'.op = "GetFromGist" /\ m # 0 /\ gists[m].files[name] = NoFile) => last'.err = "notfound"]_vars

\* C20 witness: a get by the identifier of the owner's second gist, which
\* has no file of the name, returned not-found
C20_Witness == last.op = "GetFromGist" /\ last.matched = 2 /\ last.sel = gists[2].id /\ gists[2].files[last.name] = NoFile /\ last.err = "notfound"

\* =========================================================== router claims
\* the segments of a URI: its host and the pieces of its decoded path, so one
\* more than its separators, escaped ones included
NumSegs(u) == 1 + Cardinality({i \in 1..Len(u.rest) : u.rest[i] \in {Slash, EscSlash}})

\* the arity of a scheme
Arity(scheme) == IF scheme = "gist" THEN 3 ELSE 4

Supported == {"git", "asset", "gist"}

\* the pieces of a string between its separators, all of them
Pieces(s) == SplitN(s, Len(s) + 1)

C12_MismatchRejected ==
    (last.op \in Entries /\ last.uri.scheme \in Supported /\ (NumSegs(last.uri) < Arity(last.uri.scheme) \/ (last.uri.scheme # "git" /\ NumSegs(last.uri) > Arity(last.uri.scheme))))
        => (last.err \in RouteErrs /\ last.calls = <<>>)

\* C13: every error of the router (unsupported scheme, wrong number of
\* segments, malformed URI) carries the URI and the expected pattern.
C13_InvalidAddressCarries == (last.op \in Entries /\ last.err \in RouteErrs) => (last.errURI = last.uri /\ last.pattern \in {Pattern(s) : s \in Supported})

\* the parameters the claim expects after the owner: the path segments in
\* order, for git the name being the whole remainder after the branch
ExpectedArgs(p) ==
    LET segs == Tail(Pieces(p.Path))
    IN  IF p.Scheme = "git" THEN <<segs[1], segs[2], JoinSlash(SubSeq(segs, 3, Len(segs)))>> ELSE segs

\* C14: for an accepted URI the router calls the one driver operation of the
\* scheme, once, with the host as owner and the path segments in order, and
\* returns its result and error; for a rejected URI it calls none.
C14_RouterDispatch ==
    (last.op \in Entries) =>
        IF last.err \in RouteErrs THEN last.calls = <<>>
        ELSE LET p == Parse(last.uri)
             IN  /\ last.calls = <<[op |-> Driver(last.op, p.Scheme), args |-> <<p.Host>> \o ExpectedArgs(p)]>>
                 /\ last.out = last.res.out /\ last.err = last.res.err

\* ======================================= asset claims: order and failures
AssetOps == {"GetFromReleasesAsset", "putInReleasesAsset"}

\* the places of a call in the calls of an operation
Places(calls, c) == {i \in 1..Len(calls) : calls[i] = c}

\* C21: in a release-asset put the release is created only when the lookup
\* by tag found none; when the release had an asset of the name, the delete
\* of it comes before the upload; a failed delete is followed by no upload
\* and a failed upload by no remote call at all.
C21_AssetPutOrder ==
    (last.op = "putInReleasesAsset") =>
        /\ Places(last.calls, "create") # {} => (~last.existed /\ Places(last.calls, "create") = {2} /\ last.calls[1] = "getByTag")
        /\ (last.hadAsset /\ Places(last.calls, "upload") # {}) => (Cardinality(Places(last.calls, "delete")) = 1 /\ \A i \in Places(last.calls, "delete"), j \in Places(last.calls, "upload") : i < j)
        /\ last.err = "delete" => (Places(last.calls, "upload") = {} /\ last.calls[Len(last.calls)] = "delete")
        /\ last.err = "upload" => Places(last.calls, "upload") = {Len(last.calls)}

\* C21 witness: a put to a release that had an asset of the name deleted it
\* and then failed to upload
C21_Witness == last.op = "putInReleasesAsset" /\ last.hadAsset /\ last.fail = "upload" /\ last.err = "upload" /\ last.calls = <<"getByTag", "getRelease", "delete", "upload">>

\* the releases of a list with the first asset of the name removed from the
\* release of the tag
WithoutAsset(list, tag, name) ==
    LET r == FindRelease(list, tag)
    IN  IF r = 0 THEN list
        ELSE LET hit == AssetsNamed(list[r].assets, name)
             IN  IF hit = {} THEN list ELSE [list EXCEPT ![r].assets = RemoteDeleteAsset(@, CHOOSE i \in hit : \A j \in hit : i <= j)]

\* C22: when a gist put or a release-asset put returns an error, the remote
\* is as it was before the call, except that the asset of the name that was
\* there may be deleted; no release without the asset is left behind.
C22_NoPartialState ==
    [][(last'.op \in {"putInGist", "putInReleasesAsset"} /\ last'.err \notin {"", "panic"}) =>
        /\ gists' = gists
        /\ releases' = releases \/ (last'.op = "putInReleasesAsset" /\ releases' = WithoutAsset(releases, last'.tag, last'.name))]_vars

\* the remote call a failure point stands for
FailedCall(fail) == CASE fail \in {"lookup", "lookupNoResp"} -> "getByTag" [] fail = "download" -> "httpGet" [] OTHER -> fail

\* C23: a remote call of a release-asset get or put that fails makes the
\* operation return an error, the lookup by tag that fails without an HTTP
\* response too: it is not swallowed and the call ends by an error return.
C23_FailuresSurface == (last.op \in AssetOps /\ last.fail \notin {"none", "open"} /\ Places(last.calls, FailedCall(last.fail)) # {}) => last.err \notin {"", "panic"}

\* C24: a put whose data is the content stored under the address makes no
\* mutating remote call: no delete or upload (asset), no create or edit
\* (gist), no commit or push (git).
C24_StoreIfChanged ==
    [][/\ (last'.op = "putInReleasesAsset" /\ FindRelease(releases, last'.tag) # 0 /\ \E i \in AssetsNamed(releases[FindRelease(releases, last'.tag)].assets, last'.name) : releases[FindRelease(releases, last'.tag)].assets[i].data = last'.data)
            => (Places(last'.calls, "delete") = {} /\ Places(last'.calls, "upload") = {})
       /\ (last'.op = "putInGist" /\ last'.matched # 0 /\ gists[last'.matched].files[last'.name] = last'.data)
            => (Places(last'.calls, "create") = {} /\ Places(last'.calls, "edit") = {})
       /\ (last'.op = "putInGit" /\ TreeOf(last'.preTip)[last'.name] = last'.data) => (last'.ncommit = 0 /\ last'.npush = 0)]_vars

\* ============================================ git claims: effect and mirror
\* C25: a push made by a put changes the remote branch at the path the put
\* names only: every other path of the branch has the content it had.
C25_SingleEntryPush ==
    [][(last'.op = "putInGit" /\ remoteTip' # remoteTip) =>
        \A n \in Names \ {last'.name} : commits'[remoteTip'].tree[n] = TreeOf(remoteTip)[n]]_vars

\* the steps of a git operation that fetchGit makes before the working tree
\* is read or written, and the steps after them
SetupSteps(first) == <<first, "head", "remote", "branch", "fetch">>
WorkSteps(op) == IF op = "GetFromGit" THEN <<"read">> ELSE <<"write", "add", "status", "commit", "push">>

IsPrefix(a, b) == Len(a) <= Len(b) /\ SubSeq(b, 1, Len(a)) = a

\* C28: the steps of a git get or put come in the order open-or-init, bind
\* HEAD, ensure remote, ensure branch, fetch, reset, and then the read, or the
\* write, add, status, commit and push; a step that fails ends the operation
\* with an error and none of the later steps is made.
C28_MirrorLifecycle ==
    (last.op \in GitOps) =>
        LET st == last.steps
            noReset == SelectSeq(st, LAMBDA c : c # "reset")
        IN  /\ st # <<>> => st[1] \in {"open", "init"}
            /\ st # <<>> => IsPrefix(noReset, SetupSteps(st[1]) \o WorkSteps(last.op))
            /\ \A i \in 1..Len(st) : st[i] = "reset" => i = 6
            /\ last.err = "init" => st = <<>>
            /\ last.err = "head" => Len(st) = 1
            /\ last.err = "remote" => Len(st) = 2
            /\ last.err = "branch" => Len(st) = 3
            /\ last.err = "fetch" => Len(st) = 4
            /\ last.err = "reset" => Len(st) = 5
            /\ last.err \in {"init", "head", "remote", "branch", "fetch", "reset"} => (~last.synced /\ last.ncommit = 0)
            /\ last.err = "write" => noReset = SetupSteps(st[1])
            /\ last.err = "add" => noReset = SetupSteps(st[1]) \o <<"write">>
            /\ last.err = "commit" => (noReset = SetupSteps(st[1]) \o <<"write", "add", "status">> /\ last.ncommit = 0)

\* C28 witness: a put on an existing mirror whose reset failed after the
\* fetch stopped there
C28_Witness == last.op = "putInGit" /\ last.err = "reset" /\ last.steps = <<"open", "head", "remote", "branch", "fetch">>

C30_EmptyMirror == (last.op \in GitOps /\ last.synced /\ last.preTip = 0) => (last.syncHead = 0 /\ last.syncTree = EmptyTree /\ \A i \in 1..Len(last.steps) : last.steps[i] # "reset")

\* =========================================================== stream claims
\* C26: the stream of a get closes its handle once, at the first read that
\* returns end-of-stream, not before it and not again at a later read.
C26_ClosedOnce == (last.op = "Read") => (last.closes = (IF last.eofs > 0 THEN 1 ELSE 0) /\ last.closed = (last.eofs > 0))

RECURSIVE AncestorIn(_, _, _)
\* in the commits cs, a is h or one of its ancestors; the zero hash (no
\* branch) is extended by every commit
AncestorIn(cs, a, h) == IF a = 0 \/ a = h THEN TRUE ELSE IF h = 0 THEN FALSE ELSE AncestorIn(cs, a, cs[h].parent)

\* C31: a git put that commits makes one commit whose parent is the remote
\* tip its own sync obtained (no parent when the remote had no branch); if
\* its push succeeds the remote branch becomes that commit; and a remote
\* branch that moves keeps its old tip among the ancestors of the new one.
C31_OneCommitOnRemoteTip == [][((last'.op = "putInGit" /\ last'.ncommit = 1) => (Len(commits') = Len(commits) + 1 /\ commits'[last'.commit].parent = last'.preTip /\ (last'.err = "" => remoteTip' = last'.commit))) /\ AncestorIn(commits', remoteTip, remoteTip')]_vars

\* C33: whenever putInGit returns a URL and no error, the remote branch tip
\* holds the data under the name, whatever the operations before.
C33_DurablePut == (last.op = "putInGit" /\ last.err = "") => (remoteTip # 0 /\ TreeOf(remoteTip)[last.name] = last.data)

\* C34: a git get whose sync succeeds returns the bytes the remote tip of
\* its fetch holds under the name, and an error when the remote has no
\* branch or the tip no such file, whatever the mirror held before.
C34_GetReadsRemoteTip == (last.op = "GetFromGit" /\ last.synced) => IF TreeOf(last.preTip)[last.name] = NoFile THEN last.err # "" ELSE (last.err = "" /\ last.out = TreeOf(last.preTip)[last.name])

\* C38: of two consecutive successful puts under different names, with no
\* other actor in between, the remote tip after the second holds the first
\* name with the first data and the second name with the second data.
C38_PutsAccumulate == [][(last.op = "putInGit" /\ last.err = "" /\ last'.op = "putInGit" /\ last'.err = "" /\ last'.name # last.name) => (remoteTip' # 0 /\ commits'[remoteTip'].tree[last.name] = last.data /\ commits'[remoteTip'].tree[last'.name] = last'.data)]_vars

\* ============================================================= scan order
\* C32: eachGist and eachReleases request the pages 1, 2, ... in that order,
\* each once and none beyond the last; every page fetched is handed to the
\* predicate once, in the order requested; and the scan ends at the page the
\* predicate returned false for, at the page whose request failed, or else
\* at the last page.
C32_ScanOrder ==
    (last.op \in ScanOps) =>
        LET k == Len(last.requested)
            h == Len(last.handled)
        IN  /\ k >= 1 /\ k <= last.npages
            /\ last.requested = [i \in 1..k |-> i]
            /\ h = (IF last.fail[1] = k THEN k - 1 ELSE k)
            /\ last.handled = SubSeq(last.requested, 1, h)
            /\ last.stopped \in {0, k}
            /\ (last.fail[1] # k /\ last.stopped = 0) => k = last.npages

\* C32 witness: a scan of the gists went through two pages to the last one,
\* no predicate stopping it, after a scan of the releases
C32_Witness == last.op = "eachGist" /\ last.requested = <<1, 2>> /\ last.handled = <<1, 2>> /\ last.stopped = 0 /\ last.fail[1] = 0 /\ last.npages = 2 /\ last.before.op = "eachReleases"

\* ==================================================== unopenable local file
\* C35: PutInWithFile of a local file that cannot be opened returns an error
\* and leaves every remote as it was: no release created, no asset deleted,
\* no gist created or edited, no commit pushed.
C35_UnopenableFileNoCall == [][(last.op = "request" /\ last.entry = "PutInWithFile" /\ ~last.file.readable) => (last'.err # "" /\ releases' = releases /\ gists' = gists /\ remoteTip' = remoteTip /\ commits' = commits)]_vars

\* ================================================================== gets
\* the remote calls a driver made: the steps of a git operation, the calls
\* of a gist or asset operation
RemoteCalls(rec) == IF rec.op \in GitOps THEN rec.steps ELSE rec.calls

\* C36: a get, on any backend and whether it succeeds or fails, makes no
\* push, gist create or edit, release create, asset delete or upload, and
\* leaves the remote branch, the gists and the releases as they were.
C36_GetChangesNoRemote ==
    [][(last.op = "request" /\ last.entry = "GetFrom") =>
        /\ commits' = commits /\ remoteTip' = remoteTip /\ gists' = gists /\ releases' = releases
        /\ \A i \in 1..Len(RemoteCalls(last'.rec)) : RemoteCalls(last'.rec)[i] \notin {"commit", "push", "create", "edit", "delete", "upload"}]_vars

\* C36 witness: a git get returned the file at the remote tip after its sync
\* reset a mirror that was in step with the remote
C36_Witness == last.op = "GetFrom" /\ last.backend = "git" /\ last.err = "" /\ last.rec.out = "d1" /\ last.rec.preTip = 1 /\ remoteTip = 1 /\ (\E i \in 1..Len(last.rec.steps) : last.rec.steps[i] = "reset")

\* ======================================================== gist convergence
\* C37: a put that follows a successful put to the same gist address, with
\* no other actor in between and all its remote calls succeeding, edits a
\* gist and creates none: the owner has as many gists after it as before.
C37_GistUpsertConverges == [][(last.op = "putInGist" /\ last.err = "" /\ last.fail = NoFail /\ last'.op = "putInGist" /\ last'.fail = NoFail /\ last'.sel = last.sel /\ last'.name = last.name) => (last'.err = "" /\ last'.req.kind = "edit" /\ Len(gists') = Len(gists))]_vars

\* ========================================================= mirror isolation
\* C39: two git operations whose URIs have different (owner, repository,
\* branch) triples use different mirror directories, and leave the same
\* mirrors on the disk in either order.
C39_MirrorsIsolated == (last.op = "fetchGit" /\ last.ta # last.tb) => (last.dirA # last.dirB /\ OpenBoth(last.a, last.b) = OpenBoth(last.b, last.a))

====
